---------------------------- MODULE Spec2Model ----------------------------
(***************************************************************************)
(* A model of scratch_genetic: the connection hierarchy of neuron.rs       *)
(* (NeuronConnection, NeuronConnectionSet, NeuronConnectionMap) and the    *)
(* Network of network.rs with its forward pass, mutation, crossover,       *)
(* parallel construction and binary model file.                            *)
(*                                                                         *)
(* Numbers.  An f64 is modelled by an integer q standing for q/2, so that  *)
(* 1.0 is 2 and 0.5 is 1; every value used has |q| <= 31 and is exact in   *)
(* an f64.  A usize is modelled by the integer congruent to it modulo 2^64 *)
(* of least magnitude, so that usize::MAX is -1.                           *)
(***************************************************************************)
EXTENDS Integers, Sequences, FiniteSets, TLC

VARIABLES
    f_net,      \* SpecFile: the Network handed to save_model
    f_file,     \* SpecFile: the bytes of the model file
    f_loaded,   \* SpecFile: what from_file returned
    f_pc,       \* SpecFile: "init", "saved", "save_panic", "loaded", "load_panic"
    f_delta,    \* SpecFile: bytes appended to (>0) or cut from (<0) the saved file
    nr_args,    \* SpecNew: the arguments of Network::new_random
    nr_pc,      \* SpecNew: "spawning", "joining", "returned", "index_panic", "join_panic"
    nr_handles, \* SpecNew: handles[i] is the task spawned for map index i - 1
    nr_order,   \* SpecNew: the task indices in the order the tasks finished
    nr_net,     \* SpecNew: the Network new_random returned
    p_map,      \* SpecPure: a NeuronConnectionMap
    p_input,    \* SpecPure: the input_bits handed to it
    p_acts,     \* SpecPure: what activated(input_bits) returned for each of its sets
    p_out,      \* SpecPure: what layer_activations(input_bits) returned
    p_pc,       \* SpecPure: "ready", "activated", "layered"
    e_a,        \* SpecNet: a Network
    e_b,        \* SpecNet: a second Network of the same shape
    e_op,       \* SpecNet: the last operation: "none", "mutate", "trade_ab", "trade_ba", "result"
    e_pre,      \* SpecNet: <<e_a, e_b>> as they were before the last operation
    e_base,     \* SpecNet: <<e_a, e_b>> as they were after the last random_trade (or at the start)
    e_calls,    \* SpecNet: the [input, out] of each e_a.result call since e_a last changed
    e_at,       \* SpecNet: <<>>, or <<map, set, connection>> where mutate panicked
    e_ops,      \* SpecNet: operations so far
    w_net,      \* SpecForward: a Network as new_random returned it
    w_input,    \* SpecForward: the input_bits handed to result
    w_out,      \* SpecForward: what result returned
    w_pc        \* SpecForward: "built", "done"

fileVars == <<f_net, f_file, f_loaded, f_pc, f_delta>>
newVars == <<nr_args, nr_pc, nr_handles, nr_order, nr_net>>

pureVars == <<p_map, p_input, p_acts, p_out, p_pc>>

netVars == <<e_a, e_b, e_op, e_pre, e_base, e_calls, e_at, e_ops>>

fwdVars == <<w_net, w_input, w_out, w_pc>>

vars == <<fileVars, newVars, pureVars, netVars, fwdVars>>

NoNet == "none"

-----------------------------------------------------------------------------
(* Helpers on sequences *)

RECURSIVE Zeros(_)
Zeros(n) == IF n <= 0 THEN <<>> ELSE <<0>> \o Zeros(n - 1)

RECURSIVE Concat(_)
Concat(ss) == IF ss = <<>> THEN <<>> ELSE Head(ss) \o Concat(Tail(ss))

Abs(x) == IF x < 0 THEN -x ELSE x

-----------------------------------------------------------------------------
(* usize and f64 as big-endian bytes *)

\* usize::BITS / 8 on the 64-bit targets the sentinel literal compiles for
NUM_USIZE_BYTES == 8

\* 0xFFFFFFFFFFFFFFFF, the header's sentinel (2^64 - 1 is -1 modulo 2^64)
UsizeMax == -1

\* usize::to_be_bytes: byte i (1-based, most significant first) of n mod 2^64.
\* The four high bytes are the sign extension of the 32-bit representative.
UsizeToBe(n) ==
    [i \in 1..NUM_USIZE_BYTES |->
        IF i <= 4 THEN (IF n < 0 THEN 255 ELSE 0)
        ELSE (n \div (256 ^ (NUM_USIZE_BYTES - i))) % 256]

\* usize::from_be_bytes, for words whose high four bytes are a sign extension
UsizeFromBe(b) ==
    LET low == (b[5] % 128) * (256 ^ 3) + b[6] * (256 ^ 2) + b[7] * 256 + b[8]
    IN  IF b[5] >= 128 THEN (low - 2147483647) - 1 ELSE low

Log2(a) == CHOOSE e \in 0..4 : (2 ^ e) <= a /\ a < 2 ^ (e + 1)

\* f64::to_be_bytes of q/2: sign, 11-bit biased exponent, 52-bit mantissa
F64ToBe(q) ==
    IF q = 0 THEN Zeros(8)
    ELSE LET a == Abs(q)
             e == Log2(a)
             biased == 1022 + e
             s == IF q < 0 THEN 1 ELSE 0
         IN  <<s * 128 + biased \div 16,
               (biased % 16) * 16 + (a - 2 ^ e) * (2 ^ (4 - e)),
               0, 0, 0, 0, 0, 0>>

NotModelled == "f64 outside the modelled values"

\* f64::from_be_bytes, giving q for the value q/2
F64FromBe(b) ==
    LET s == b[1] \div 128
        biased == (b[1] % 128) * 16 + b[2] \div 16
        nib == b[2] % 16
        e == biased - 1022
    IN  IF \E i \in 3..8 : b[i] # 0 THEN NotModelled
        ELSE IF biased = 0 /\ nib = 0 THEN 0
        ELSE IF e < 0 \/ e > 4 \/ ((16 + nib) * (2 ^ e)) % 16 # 0 THEN NotModelled
        ELSE LET mag == ((16 + nib) * (2 ^ e)) \div 16
             IN  IF s = 1 THEN -mag ELSE mag

-----------------------------------------------------------------------------
(* The shape of a Network *)

\* input width of map i (0-based), as new_random and from_file compute it
InLayerSize(i, layer_sizes, num_inputs) ==
    IF i = 0 THEN num_inputs ELSE layer_sizes[i]

\* output width of map i (0-based)
OutLayerSize(i, layer_sizes, num_outputs) ==
    IF i = Len(layer_sizes) THEN num_outputs ELSE layer_sizes[i + 1]

RECURSIVE SumTo(_, _)
SumTo(f, n) == IF n <= 0 THEN 0 ELSE f[n] + SumTo(f, n - 1)

\* big_arr_size of save_model and from_file; layer_sizes is not empty here
BigArrSize(layer_sizes, num_inputs, num_outputs) ==
    LET n == Len(layer_sizes)
        first == num_inputs * layer_sizes[1]
        mid == SumTo([i \in 1..(n - 1) |-> layer_sizes[i] * layer_sizes[i + 1]], n - 1)
        last == layer_sizes[n] * num_outputs
        sets == SumTo([i \in 1..(n + 1) |->
                         2 * 8 * OutLayerSize(i - 1, layer_sizes, num_outputs)], n + 1)
    IN  (first + mid + last) * (8 * 6) + sets


-----------------------------------------------------------------------------
(* save_model *)

\* the six f64 fields of a NeuronConnection in the order save_model writes them
ConnBytes(conn) ==
    F64ToBe(conn.weight) \o F64ToBe(conn.offset)
    \o F64ToBe(conn.weight_mutate_chance) \o F64ToBe(conn.weight_mutate_amount)
    \o F64ToBe(conn.offset_mutate_chance) \o F64ToBe(conn.offset_mutate_amount)

\* one NeuronConnectionSet: its connections, then activation_thresh, trait_swap_chance
SetBytes(set) ==
    Concat([k \in 1..Len(set.conns) |-> ConnBytes(set.conns[k])])
    \o F64ToBe(set.activation_thresh) \o F64ToBe(set.trait_swap_chance)

MapBytes(m) == Concat([j \in 1..Len(m.map) |-> SetBytes(m.map[j])])

\* the header: num_inputs, num_outputs, the layer sizes, the sentinel
HeaderBytes(net) ==
    UsizeToBe(net.num_inputs) \o UsizeToBe(net.num_outputs)
    \o Concat([i \in 1..Len(net.layer_sizes) |-> UsizeToBe(net.layer_sizes[i])])
    \o UsizeToBe(UsizeMax)

\* save_model: [ok, file].  The header is on disk before big_arr_size is
\* computed, so a panic there (layer_sizes[0] of an empty Vec, or big_arr[x]
\* past the end) leaves a file holding the header alone.
SaveModel(net) ==
    LET header == HeaderBytes(net)
    IN  IF Len(net.layer_sizes) = 0
        THEN [ok |-> FALSE, file |-> header]
        ELSE LET size == BigArrSize(net.layer_sizes, net.num_inputs, net.num_outputs)
                 data == Concat([i \in 1..Len(net.maps) |-> MapBytes(net.maps[i])])
             IN  IF Len(data) > size
                 THEN [ok |-> FALSE, file |-> header]
                 ELSE [ok |-> TRUE,
                       file |-> header \o data \o Zeros(size - Len(data))]

-----------------------------------------------------------------------------
(* from_file *)

\* read_exact of an 8-byte word at offset pos (0-based); FALSE on a short file
CanRead(file, pos, n) == pos + n <= Len(file)

Word(file, pos) == SubSeq(file, pos + 1, pos + 8)

\* the while loop over layer_size words: [ok, layer_sizes, pos]
RECURSIVE ReadLayerSizes(_, _, _)
ReadLayerSizes(file, pos, acc) ==
    IF ~CanRead(file, pos, NUM_USIZE_BYTES)
    THEN [ok |-> FALSE, layer_sizes |-> acc, pos |-> pos]
    ELSE LET w == UsizeFromBe(Word(file, pos))
         IN  IF w = UsizeMax
             THEN [ok |-> TRUE, layer_sizes |-> acc, pos |-> pos + NUM_USIZE_BYTES]
             ELSE ReadLayerSizes(file, pos + NUM_USIZE_BYTES, Append(acc, w))

\* one NeuronConnection from big_arr at x: six f64 of 8 bytes each
ReadConn(big_arr, x) ==
    [weight |-> F64FromBe(Word(big_arr, x)),
     offset |-> F64FromBe(Word(big_arr, x + 8)),
     weight_mutate_chance |-> F64FromBe(Word(big_arr, x + 16)),
     weight_mutate_amount |-> F64FromBe(Word(big_arr, x + 24)),
     offset_mutate_chance |-> F64FromBe(Word(big_arr, x + 32)),
     offset_mutate_amount |-> F64FromBe(Word(big_arr, x + 40))]

\* the loop `for _ in 0..in_layer_size`: [conns, x]
RECURSIVE ReadConns(_, _, _, _)
ReadConns(big_arr, x, n, acc) ==
    IF n = 0 THEN [conns |-> acc, x |-> x]
    ELSE ReadConns(big_arr, x + 48, n - 1, Append(acc, ReadConn(big_arr, x)))

\* the loop `for _ in 0..out_layer_size`: [map, x]
RECURSIVE ReadSets(_, _, _, _, _)
ReadSets(big_arr, x, n, in_layer_size, acc) ==
    IF n = 0 THEN [map |-> acc, x |-> x]
    ELSE LET c == ReadConns(big_arr, x, in_layer_size, <<>>)
             set == [conns |-> c.conns,
                     activation_thresh |-> F64FromBe(Word(big_arr, c.x)),
                     trait_swap_chance |-> F64FromBe(Word(big_arr, c.x + 8))]
         IN  ReadSets(big_arr, c.x + 16, n - 1, in_layer_size, Append(acc, set))

\* the loop `for i in 0..=layer_sizes.len()`, i 0-based
RECURSIVE ReadMaps(_, _, _, _, _, _, _)
ReadMaps(big_arr, x, i, layer_sizes, num_inputs, num_outputs, acc) ==
    IF i > Len(layer_sizes) THEN acc
    ELSE LET s == ReadSets(big_arr, x,
                           OutLayerSize(i, layer_sizes, num_outputs),
                           InLayerSize(i, layer_sizes, num_inputs), <<>>)
         IN  ReadMaps(big_arr, s.x, i + 1, layer_sizes, num_inputs, num_outputs,
                      Append(acc, [map |-> s.map]))

\* from_file: [ok, net].  Every failed read_exact and the index layer_sizes[0]
\* of an empty Vec is a panic (ok = FALSE).
FromFile(file) ==
    LET fail == [ok |-> FALSE, net |-> NoNet]
    IN  IF ~CanRead(file, 0, 3 * NUM_USIZE_BYTES) THEN fail
        ELSE LET num_inputs == UsizeFromBe(Word(file, 0))
                 num_outputs == UsizeFromBe(Word(file, 8))
                 h == ReadLayerSizes(file, 16, <<>>)
             IN  IF ~h.ok \/ Len(h.layer_sizes) = 0 THEN fail
                 ELSE LET size == BigArrSize(h.layer_sizes, num_inputs, num_outputs)
                      IN  IF ~CanRead(file, h.pos, size) THEN fail
                          ELSE LET big_arr == SubSeq(file, h.pos + 1, h.pos + size)
                               IN  [ok |-> TRUE,
                                    net |-> [maps |-> ReadMaps(big_arr, 0, 0, h.layer_sizes,
                                                               num_inputs, num_outputs, <<>>),
                                             layer_sizes |-> h.layer_sizes,
                                             num_inputs |-> num_inputs,
                                             num_outputs |-> num_outputs]]

-----------------------------------------------------------------------------
(* The forward pass: activated, layer_activations, result *)

\* The outcome of a call is [ok, val]: ok is FALSE when the call panicked
\* (an index past the end of a Vec), and val is then a placeholder.
Returned(v) == [ok |-> TRUE, val |-> v]

PanicOf(v) == [ok |-> FALSE, val |-> v]

\* input_bits[byte_ind] >> (7 - bit) & 0x01
InputBit(input_bits, byte_ind, bit) == (input_bits[byte_ind + 1] \div (2 ^ (7 - bit))) % 2

\* the loop of activated from connection k on: the sum, or a panic when
\* byte_ind is past the end of input_bits
RECURSIVE ActivatedSum(_, _, _, _, _, _)
ActivatedSum(conns, k, bit, byte_ind, sum, input_bits) ==
    IF k > Len(conns) THEN Returned(sum)
    ELSE IF byte_ind >= Len(input_bits) THEN PanicOf(sum)
    ELSE LET input == InputBit(input_bits, byte_ind, bit)
             next == sum + (conns[k].weight * input + conns[k].offset)
         IN  IF bit + 1 = 8
             THEN ActivatedSum(conns, k + 1, 0, byte_ind + 1, next, input_bits)
             ELSE ActivatedSum(conns, k + 1, bit + 1, byte_ind, next, input_bits)

\* activated with the comparison sum >= activation_thresh
ActivatedAtThreshold(set, input_bits) ==
    LET r == ActivatedSum(set.conns, 1, 0, 0, 0, input_bits)
    IN  IF r.ok THEN Returned(r.val >= set.activation_thresh) ELSE PanicOf(FALSE)

\* NeuronConnectionSet::activated
Activated(set, input_bits) ==
    LET r == ActivatedSum(set.conns, 1, 0, 0, 0, input_bits)
    IN  IF r.ok THEN Returned(r.val > set.activation_thresh) ELSE PanicOf(FALSE)

\* the loop of layer_activations from set n on: [ok, activates, curr_byte, bit],
\* ok FALSE when a set's activated panicked
RECURSIVE LayerLoop(_, _, _, _, _, _)
LayerLoop(map, n, activates, curr_byte, bit, input_bits) ==
    IF n > Len(map)
    THEN [ok |-> TRUE, activates |-> activates, curr_byte |-> curr_byte, bit |-> bit]
    ELSE LET act == Activated(map[n], input_bits)
         IN  IF ~act.ok
             THEN [ok |-> FALSE, activates |-> activates, curr_byte |-> curr_byte, bit |-> bit]
             ELSE LET byte == IF act.val THEN curr_byte + 2 ^ (7 - bit) ELSE curr_byte
                  IN  IF bit + 1 = 8
                      THEN LayerLoop(map, n + 1, Append(activates, byte), 0, 0, input_bits)
                      ELSE LayerLoop(map, n + 1, activates, byte, bit + 1, input_bits)

\* layer_activations that also pushes a last, partly filled byte
LayerActivationsPadded(m, input_bits) ==
    LET r == LayerLoop(m.map, 1, <<>>, 0, 0, input_bits)
    IN  IF ~r.ok THEN PanicOf(<<>>)
        ELSE IF r.bit > 0 THEN Returned(Append(r.activates, r.curr_byte))
        ELSE Returned(r.activates)

\* NeuronConnectionMap::layer_activations: the bytes pushed
LayerActivations(m, input_bits) ==
    LET r == LayerLoop(m.map, 1, <<>>, 0, 0, input_bits)
    IN  IF r.ok THEN Returned(r.activates) ELSE PanicOf(<<>>)

\* Network::result: last_bits after the maps from i on
RECURSIVE ResultFrom(_, _, _)
ResultFrom(maps, i, last_bits) ==
    IF i > Len(maps) THEN Returned(last_bits)
    ELSE LET next == LayerActivations(maps[i], last_bits)
         IN  IF next.ok THEN ResultFrom(maps, i + 1, next.val) ELSE PanicOf(<<>>)

NetResult(net, input_bits) == ResultFrom(net.maps, 1, input_bits)

-----------------------------------------------------------------------------
(* Mutation and crossover *)

EMaxWeight == 3     \* weights and offsets stay within -EMaxWeight..EMaxWeight (halves)

\* rng.gen_bool(p) for p (in halves) in [0, 1]: never true at 0, always at 1
GenBool(p) == IF p = 0 THEN {FALSE} ELSE IF p = 2 THEN {TRUE} ELSE BOOLEAN

\* rng.gen_range(low..high) on the grid of halves: the values of [low, high);
\* the set is empty exactly when the range is, and gen_range then panics
\* ("cannot sample empty range")
GenRange(low, high) == {v \in low..(high - 1) : Abs(v) <= EMaxWeight}

\* one half of NeuronConnection::mutate, for the weight or for the offset:
\* the outcomes [ok, val] of `if gen_bool(chance) { v = gen_range(v-a..v+a) }`
Resample(v, chance, amount) ==
    UNION {IF ~flip THEN {Returned(v)}
           ELSE IF v - amount >= v + amount THEN {PanicOf(v)}
           ELSE {Returned(n) : n \in GenRange(v - amount, v + amount)}
           : flip \in GenBool(chance)}

\* mutate whose first draw is governed by offset_mutate_chance as the second is
MutateConnOffsetChance(conn) ==
    UNION {IF ~w.ok THEN {PanicOf(conn)}
           ELSE {[ok |-> o.ok, val |-> [conn EXCEPT !.weight = w.val, !.offset = o.val]]
                 : o \in Resample(conn.offset, conn.offset_mutate_chance,
                                  conn.offset_mutate_amount)}
           : w \in Resample(conn.weight, conn.offset_mutate_chance,
                            conn.weight_mutate_amount)}

\* NeuronConnection::mutate: the weight, then the offset; a panic in the
\* weight's gen_range leaves the connection as it was
MutateConn(conn) ==
    UNION {IF ~w.ok THEN {PanicOf(conn)}
           ELSE {[ok |-> o.ok, val |-> [conn EXCEPT !.weight = w.val, !.offset = o.val]]
                 : o \in Resample(conn.offset, conn.offset_mutate_chance,
                                  conn.offset_mutate_amount)}
           : w \in Resample(conn.weight, conn.weight_mutate_chance,
                            conn.weight_mutate_amount)}

\* NeuronConnectionSet::mutate_all from connection k on: [conns, at], at the
\* index of the connection whose mutate panicked, 0 when none did
RECURSIVE MutateConnsFrom(_, _)
MutateConnsFrom(conns, k) ==
    IF k > Len(conns) THEN {[conns |-> conns, at |-> 0]}
    ELSE UNION {IF ~o.ok THEN {[conns |-> [conns EXCEPT ![k] = o.val], at |-> k]}
                ELSE MutateConnsFrom([conns EXCEPT ![k] = o.val], k + 1)
                : o \in MutateConn(conns[k])}

\* NeuronConnectionMap::mutate_all from set j on: [map, at]
RECURSIVE MutateSetsFrom(_, _)
MutateSetsFrom(map, j) ==
    IF j > Len(map) THEN {[map |-> map, at |-> <<>>]}
    ELSE UNION {IF r.at # 0
                THEN {[map |-> [map EXCEPT ![j].conns = r.conns], at |-> <<j, r.at>>]}
                ELSE MutateSetsFrom([map EXCEPT ![j].conns = r.conns], j + 1)
                : r \in MutateConnsFrom(map[j].conns, 1)}

\* Network::mutate from map i on: [maps, at]
RECURSIVE MutateMapsFrom(_, _)
MutateMapsFrom(maps, i) ==
    IF i > Len(maps) THEN {[maps |-> maps, at |-> <<>>]}
    ELSE UNION {IF r.at # <<>>
                THEN {[maps |-> [maps EXCEPT ![i].map = r.map], at |-> <<i>> \o r.at]}
                ELSE MutateMapsFrom([maps EXCEPT ![i].map = r.map], i + 1)
                : r \in MutateSetsFrom(maps[i].map, 1)}

\* Network::mutate: the Networks it may leave, each with where it panicked
NetMutate(net) ==
    {[net |-> [net EXCEPT !.maps = r.maps], at |-> r.at] : r \in MutateMapsFrom(net.maps, 1)}

Min(x, y) == IF x < y THEN x ELSE y

\* a swap that overwrites other_conn with the connection just copied into conn
SwapKeepingOther(conn, other_conn) == <<other_conn, other_conn>>

\* old_conn = conn.clone(); *conn = other_conn.clone(); *other_conn = old_conn
SwapConns(conn, other_conn) == <<other_conn, conn>>

\* NeuronConnectionSet::trade_with from the zipped pair k on: the pairs
\* <<conns, other conns>> it may leave; the coin is self's trait_swap_chance
RECURSIVE TradeConnsFrom(_, _, _, _)
TradeConnsFrom(conns, others, k, chance) ==
    IF k > Min(Len(conns), Len(others)) THEN {<<conns, others>>}
    ELSE UNION {IF flip
                THEN LET sw == SwapConns(conns[k], others[k])
                     IN  TradeConnsFrom([conns EXCEPT ![k] = sw[1]],
                                        [others EXCEPT ![k] = sw[2]], k + 1, chance)
                ELSE TradeConnsFrom(conns, others, k + 1, chance)
                : flip \in GenBool(chance)}

\* NeuronConnectionMap::trade_with from the zipped pair of sets j on
RECURSIVE TradeSetsFrom(_, _, _)
TradeSetsFrom(map, other, j) ==
    IF j > Min(Len(map), Len(other)) THEN {<<map, other>>}
    ELSE UNION {TradeSetsFrom([map EXCEPT ![j].conns = r[1]],
                              [other EXCEPT ![j].conns = r[2]], j + 1)
                : r \in TradeConnsFrom(map[j].conns, other[j].conns, 1,
                                       map[j].trait_swap_chance)}

\* Network::random_trade from map i on; both Networks have the same number of maps
RECURSIVE TradeMapsFrom(_, _, _)
TradeMapsFrom(maps, others, i) ==
    IF i > Len(maps) THEN {<<maps, others>>}
    ELSE UNION {TradeMapsFrom([maps EXCEPT ![i].map = r[1]],
                              [others EXCEPT ![i].map = r[2]], i + 1)
                : r \in TradeSetsFrom(maps[i].map, others[i].map, 1)}

\* self.random_trade(&mut other): the pairs <<self, other>> it may leave
NetRandomTrade(self, other) ==
    {<<[self EXCEPT !.maps = r[1]], [other EXCEPT !.maps = r[2]]>>
     : r \in TradeMapsFrom(self.maps, other.maps, 1)}

-----------------------------------------------------------------------------
(* Each specification drives its own variables; the others rest.           *)

FileIdle ==
    /\ f_net = NoNet /\ f_file = <<>> /\ f_loaded = NoNet
    /\ f_pc = "idle" /\ f_delta = 0

NewIdle ==
    /\ nr_args = NoNet /\ nr_pc = "idle" /\ nr_handles = <<>>
    /\ nr_order = <<>> /\ nr_net = NoNet

PureIdle ==
    /\ p_map = NoNet /\ p_input = <<>> /\ p_acts = <<>>
    /\ p_out = PanicOf(<<>>) /\ p_pc = "idle"

NetIdle ==
    /\ e_a = NoNet /\ e_b = NoNet /\ e_op = "idle" /\ e_pre = <<>>
    /\ e_base = <<>> /\ e_calls = <<>> /\ e_at = <<>> /\ e_ops = 0

FwdIdle ==
    /\ w_net = NoNet /\ w_input = <<>> /\ w_out = PanicOf(<<>>) /\ w_pc = "idle"

-----------------------------------------------------------------------------
(* SpecFile: a Network is saved, the file is perhaps cut or extended, and   *)
(* the file is loaded.                                                      *)

FMaxWidth == 2      \* widths (num_inputs, num_outputs, layer sizes) are 1..FMaxWidth
FMaxLayers == 2     \* layer_sizes has 0..FMaxLayers entries
FMaxSeed == 2       \* field values are drawn by seeds 0..FMaxSeed
MaxTamper == 2      \* up to MaxTamper bytes are cut from or appended to a file

SeqsUpTo(S, n) == UNION {[1..k -> S] : k \in 0..n}

\* a field value q (for q/2) that differs between neighbouring fields,
\* connections, sets and maps
FieldVal(seed, i, j, k, f) == ((11 * seed + 13 * i + 7 * j + 5 * k + 3 * f) % 63) - 31

\* a Network of the given shape whose fields are all FieldVal
MakeNet(layer_sizes, num_inputs, num_outputs, seed) ==
    [maps |-> [i \in 1..(Len(layer_sizes) + 1) |->
        [map |-> [j \in 1..OutLayerSize(i - 1, layer_sizes, num_outputs) |->
            [conns |-> [k \in 1..InLayerSize(i - 1, layer_sizes, num_inputs) |->
                [weight |-> FieldVal(seed, i, j, k, 0),
                 offset |-> FieldVal(seed, i, j, k, 1),
                 weight_mutate_chance |-> FieldVal(seed, i, j, k, 2),
                 weight_mutate_amount |-> FieldVal(seed, i, j, k, 3),
                 offset_mutate_chance |-> FieldVal(seed, i, j, k, 4),
                 offset_mutate_amount |-> FieldVal(seed, i, j, k, 5)]],
             activation_thresh |-> FieldVal(seed, i, j, 0, 6),
             trait_swap_chance |-> FieldVal(seed, i, j, 0, 7)]]]],
     layer_sizes |-> layer_sizes,
     num_inputs |-> num_inputs,
     num_outputs |-> num_outputs]

\* the variables of the other specifications stay as they are
FileFrame == UNCHANGED <<newVars, pureVars, netVars, fwdVars>>

FileInit ==
    /\ NewIdle /\ PureIdle /\ NetIdle /\ FwdIdle
    /\ \E layer_sizes \in SeqsUpTo(1..FMaxWidth, FMaxLayers),
          num_inputs \in 1..FMaxWidth, num_outputs \in 1..FMaxWidth,
          seed \in 0..FMaxSeed :
            f_net = MakeNet(layer_sizes, num_inputs, num_outputs, seed)
    /\ f_file = <<>>
    /\ f_loaded = NoNet
    /\ f_pc = "init"
    /\ f_delta = 0

\* net.save_model(fname)
Save ==
    /\ f_pc = "init"
    /\ LET r == SaveModel(f_net)
       IN  /\ f_file' = r.file
           /\ f_pc' = IF r.ok THEN "saved" ELSE "save_panic"
    /\ UNCHANGED <<f_net, f_loaded, f_delta>>
    /\ FileFrame

\* the file loses its last n bytes before it is loaded
Truncate ==
    /\ f_pc = "saved"
    /\ f_delta = 0
    /\ \E n \in 1..MaxTamper :
        /\ n <= Len(f_file)
        /\ f_file' = SubSeq(f_file, 1, Len(f_file) - n)
        /\ f_delta' = -n
    /\ UNCHANGED <<f_net, f_loaded, f_pc>>
    /\ FileFrame

\* the file gains n bytes at its end before it is loaded
Extend ==
    /\ f_pc = "saved"
    /\ f_delta = 0
    /\ \E n \in 1..MaxTamper, byte \in {0, 255} :
        /\ f_file' = f_file \o [i \in 1..n |-> byte]
        /\ f_delta' = n
    /\ UNCHANGED <<f_net, f_loaded, f_pc>>
    /\ FileFrame

\* Network::from_file(fname) on the file as it now is
Load ==
    /\ f_pc \in {"saved", "save_panic"}
    /\ LET r == FromFile(f_file)
       IN  /\ f_loaded' = r.net
           /\ f_pc' = IF r.ok THEN "loaded" ELSE "load_panic"
    /\ UNCHANGED <<f_net, f_file, f_delta>>
    /\ FileFrame

FileNext == Save \/ Truncate \/ Extend \/ Load

SpecFile == FileInit /\ [][FileNext]_vars

\* byte count of the body the header of f_net declares (section 6 of the spec)
DeclaredBodySize(net) ==
    LET n == Len(net.layer_sizes)
        w == [i \in 1..(n + 1) |->
                InLayerSize(i - 1, net.layer_sizes, net.num_inputs)
                * OutLayerSize(i - 1, net.layer_sizes, net.num_outputs)]
        o == [i \in 1..(n + 1) |-> OutLayerSize(i - 1, net.layer_sizes, net.num_outputs)]
    IN  8 * (6 * SumTo(w, n + 1) + 2 * SumTo(o, n + 1))

\* C1: for any Network N, save_model followed by from_file of the written
\* file completes and yields a Network equal to N in every field.
C1_RoundTrip ==
    /\ f_pc # "save_panic"
    /\ (f_delta = 0 => f_pc # "load_panic")
    /\ (f_pc = "loaded" /\ f_delta = 0 => f_loaded = f_net)

\* what the code keeps of C1: with one layer size or more, the round trip
\* completes and returns the Network that was saved
RoundTripWithLayers ==
    Len(f_net.layer_sizes) > 0 =>
        /\ f_pc # "save_panic"
        /\ (f_delta = 0 => f_pc # "load_panic")
        /\ (f_pc = "loaded" /\ f_delta = 0 => f_loaded = f_net)

\* what the code keeps of C3: a body shorter than declared is never loaded
ShortBodyRejected ==
    (f_pc \in {"loaded", "load_panic"} /\ f_delta < 0) => f_pc = "load_panic"

\* and what it does with a longer one: the tail is dropped, the rest loaded
LongBodyLoaded ==
    (f_pc \in {"loaded", "load_panic"} /\ f_delta > 0 /\ Len(f_net.layer_sizes) > 0)
        => (f_pc = "loaded" /\ f_loaded = f_net)

\* C3: a file with a well-formed header whose body byte count differs from
\* the declared size, shorter or longer, is never loaded: from_file fails.
C3_MalformedRejected ==
    LET body == Len(f_file) - Len(HeaderBytes(f_net))
    IN  (f_pc \in {"loaded", "load_panic"} /\ body # DeclaredBodySize(f_net))
            => f_pc = "load_panic"

-----------------------------------------------------------------------------
(* SpecNew: Network::new_random spawns one task per map, the tasks run and  *)
(* finish in any order, and try_join_all(handles).await.unwrap() collects.  *)

NMaxWidth == 2      \* widths are 1..NMaxWidth
NMaxLayers == 1     \* layer_sizes has 0..NMaxLayers entries
NMaxSeed == 1       \* a task draws its weights by a seed in 0..NMaxSeed

\* NeuronConnection::new_random: weight in [-1.0, 1.0], offset in [-0.5, 0.5],
\* the four mutation parameters copied from the caller
ConnNewRandom(p, w, o) ==
    [weight |-> w, offset |-> o,
     weight_mutate_chance |-> p.weight_mutate_chance,
     weight_mutate_amount |-> p.weight_mutate_amount,
     offset_mutate_chance |-> p.offset_mutate_chance,
     offset_mutate_amount |-> p.offset_mutate_amount]

\* the draws of one task: a weight q in -2..2 and an offset q in -1..1 per connection
DrawWeight(seed, j, k) == ((seed + 2 * j + k) % 5) - 2
DrawOffset(seed, j, k) == ((seed + j + 2 * k) % 3) - 1

\* NeuronConnectionSet::new_random: size connections, pushed in order
SetNewRandom(size, p, seed, j) ==
    [conns |-> [k \in 1..size |->
                  ConnNewRandom(p, DrawWeight(seed, j, k), DrawOffset(seed, j, k))],
     activation_thresh |-> p.activation_thresh,
     trait_swap_chance |-> p.trait_swap_chance]

\* NeuronConnectionMap::new_random(size, neuron_size, ...): size sets of
\* neuron_size connections each
MapNewRandom(size, neuron_size, p, seed) ==
    [map |-> [j \in 1..size |-> SetNewRandom(neuron_size, p, seed, j)]]

\* the arguments of the task spawned for i (0-based), in the order the code
\* tests them: i == 0 first, which indexes layer_sizes[0] whatever its length
SpawnSizes(i, layer_sizes, num_inputs, num_outputs) ==
    IF i = 0
    THEN IF Len(layer_sizes) = 0
         THEN [ok |-> FALSE, size |-> 0, neuron_size |-> 0]
         ELSE [ok |-> TRUE, size |-> layer_sizes[1], neuron_size |-> num_inputs]
    ELSE IF i = Len(layer_sizes)
    THEN [ok |-> TRUE, size |-> num_outputs, neuron_size |-> layer_sizes[i]]
    ELSE [ok |-> TRUE, size |-> layer_sizes[i + 1], neuron_size |-> layer_sizes[i]]

\* the caller's configuration: thresholds and chances in halves
Params ==
    [activation_thresh |-> 1, trait_swap_chance |-> 1,
     weight_mutate_chance |-> 1, weight_mutate_amount |-> 1,
     offset_mutate_chance |-> 0, offset_mutate_amount |-> 2]

\* the shape of the spec's example: new_random([4,3], 5, 2, ...)
ExampleArgs == [layer_sizes |-> <<4, 3>>, num_inputs |-> 5, num_outputs |-> 2]

NewFrame == UNCHANGED <<fileVars, pureVars, netVars, fwdVars>>

NewInit ==
    /\ FileIdle /\ PureIdle /\ NetIdle /\ FwdIdle
    /\ nr_args \in {ExampleArgs} \cup
                   [layer_sizes : SeqsUpTo(1..NMaxWidth, NMaxLayers),
                    num_inputs : 1..NMaxWidth, num_outputs : 1..NMaxWidth]
    /\ nr_pc = "spawning"
    /\ nr_handles = <<>>
    /\ nr_order = <<>>
    /\ nr_net = NoNet

\* one turn of `for i in 0..=layer_sizes.len()`: handles.push(spawn(...))
Spawn ==
    /\ nr_pc = "spawning"
    /\ LET i == Len(nr_handles)
           a == SpawnSizes(i, nr_args.layer_sizes, nr_args.num_inputs, nr_args.num_outputs)
       IN  IF ~a.ok
           THEN /\ nr_pc' = "index_panic"
                /\ UNCHANGED nr_handles
           ELSE /\ nr_handles' = Append(nr_handles,
                                   [size |-> a.size, neuron_size |-> a.neuron_size,
                                    state |-> "running", output |-> NoNet])
                /\ nr_pc' = IF i = Len(nr_args.layer_sizes) THEN "joining" ELSE "spawning"
    /\ UNCHANGED <<nr_args, nr_order, nr_net>>
    /\ NewFrame

\* the call has neither returned nor panicked
NewRandomLive == nr_pc \in {"spawning", "joining"}

\* a spawned task runs NeuronConnectionMap::new_random to its end
TaskFinish(t) ==
    /\ NewRandomLive
    /\ t \in 1..Len(nr_handles)
    /\ nr_handles[t].state = "running"
    /\ \E seed \in 0..NMaxSeed :
        nr_handles' = [nr_handles EXCEPT
            ![t].state = "done",
            ![t].output = MapNewRandom(nr_handles[t].size, nr_handles[t].neuron_size,
                                       Params, seed)]
    /\ nr_order' = Append(nr_order, t)
    /\ UNCHANGED <<nr_args, nr_pc, nr_net>>
    /\ NewFrame

\* a spawned task ends in a JoinError (it panicked or was cancelled)
TaskFail(t) ==
    /\ NewRandomLive
    /\ t \in 1..Len(nr_handles)
    /\ nr_handles[t].state = "running"
    /\ nr_handles' = [nr_handles EXCEPT ![t].state = "failed"]
    /\ nr_order' = Append(nr_order, t)
    /\ UNCHANGED <<nr_args, nr_pc, nr_net>>
    /\ NewFrame

\* a collection that takes the outputs as the tasks finish, not by handle
JoinedByCompletion(handles, order) ==
    [n \in 1..Len(handles) |-> handles[order[n]].output]

\* what try_join_all yields once every handle is ready: the outputs in the
\* order of the handles
JoinedMaps(handles, order) == [t \in 1..Len(handles) |-> handles[t].output]

\* try_join_all(handles).await is Ok: the Network is built and returned
JoinReturn ==
    /\ nr_pc = "joining"
    /\ \A t \in 1..Len(nr_handles) : nr_handles[t].state = "done"
    /\ nr_net' = [maps |-> JoinedMaps(nr_handles, nr_order),
                  layer_sizes |-> nr_args.layer_sizes,
                  num_inputs |-> nr_args.num_inputs,
                  num_outputs |-> nr_args.num_outputs]
    /\ nr_pc' = "returned"
    /\ UNCHANGED <<nr_args, nr_handles, nr_order>>
    /\ NewFrame

\* try_join_all(handles).await is Err as soon as one handle is: unwrap panics
JoinAbort ==
    /\ nr_pc = "joining"
    /\ \E t \in 1..Len(nr_handles) : nr_handles[t].state = "failed"
    /\ nr_pc' = "join_panic"
    /\ UNCHANGED <<nr_args, nr_handles, nr_order, nr_net>>
    /\ NewFrame

NewNext ==
    \/ Spawn
    \/ \E t \in 1..Len(nr_handles) : TaskFinish(t)
    \/ \E t \in 1..Len(nr_handles) : TaskFail(t)
    \/ JoinReturn
    \/ JoinAbort

SpecNew == NewInit /\ [][NewNext]_vars

\* the shape the spec gives map i (0-based): [sets, conns]
SpecOutWidth(i, a) ==
    IF i < Len(a.layer_sizes) THEN a.layer_sizes[i + 1] ELSE a.num_outputs

SpecInWidth(i, a) == IF i = 0 THEN a.num_inputs ELSE a.layer_sizes[i]

HasSpecShape(net, a) ==
    /\ Len(net.maps) = Len(a.layer_sizes) + 1
    /\ \A i \in 1..Len(net.maps) :
        /\ Len(net.maps[i].map) = SpecOutWidth(i - 1, a)
        /\ \A j \in 1..Len(net.maps[i].map) :
            Len(net.maps[i].map[j].conns) = SpecInWidth(i - 1, a)

\* C2: for every layer_sizes of zero or more positive integers and positive
\* num_inputs, num_outputs, new_random returns a Network of len(layer_sizes)+1
\* maps, map i with SpecOutWidth(i) sets of SpecInWidth(i) connections each.
C2_NewRandomShape ==
    /\ nr_pc # "index_panic"
    /\ (nr_pc = "returned" => HasSpecShape(nr_net, nr_args))

\* the part of C2 the code keeps: a returned Network has the spec's shape
\* (for [4,3], 5, 2: shapes (4,5), (3,4), (2,3))
ReturnedShape == nr_pc = "returned" => HasSpecShape(nr_net, nr_args)

ExampleReturned ==
    /\ nr_pc = "returned"
    /\ nr_args = ExampleArgs
    /\ [i \in 1..3 |-> <<Len(nr_net.maps[i].map), Len(nr_net.maps[i].map[1].conns)>>]
        = <<(<<4, 5>>), (<<3, 4>>), (<<2, 3>>)>>

\* C10: one task per map index is spawned; whatever the interleaving and the
\* order in which the tasks finish, the returned Network's maps[i] is the map
\* the task spawned for index i produced; new_random returns only after every
\* task has finished, and once a task has failed no Network is returned.
C10_OrderedReassembly ==
    /\ (nr_pc = "returned" =>
            /\ Len(nr_handles) = Len(nr_args.layer_sizes) + 1
            /\ Len(nr_net.maps) = Len(nr_handles)
            /\ \A t \in 1..Len(nr_handles) :
                /\ nr_handles[t].state = "done"
                /\ nr_net.maps[t] = nr_handles[t].output)
    /\ (nr_pc # "returned" => nr_net = NoNet)
    /\ ((\E t \in 1..Len(nr_handles) : nr_handles[t].state = "failed")
            => nr_pc # "returned")
    /\ (nr_pc = "join_panic" =>
            \E t \in 1..Len(nr_handles) : nr_handles[t].state = "failed")

\* a Network was returned although the tasks finished in reverse order and
\* produced different maps
C10_Witness ==
    /\ nr_pc = "returned"
    /\ Len(nr_handles) >= 2
    /\ nr_order = [n \in 1..Len(nr_handles) |-> Len(nr_handles) + 1 - n]
    /\ nr_handles[1].output # nr_handles[2].output

\* a task failed while another was still running, and the call aborted
C10_AbortWitness ==
    /\ nr_pc = "join_panic"
    /\ \E t \in 1..Len(nr_handles) : nr_handles[t].state = "running"

-----------------------------------------------------------------------------
(* SpecPure: activated and layer_activations on drawn maps and inputs *)

PMaxSets == 17      \* a map has 0..PMaxSets sets
PMaxConns == 9      \* each of 0..PMaxConns connections
PMaxBytes == 2      \* input_bits has 0..PMaxBytes bytes
PMaxSeed == 1       \* weights, offsets and thresholds are drawn by seeds 0..PMaxSeed

\* the bytes an input is made of: no bit, alternating bits, all bits
InputBytes == {0, 165, 255}

PureConn(seed, j, k) ==
    [weight |-> ((seed + j + 2 * k) % 5) - 2,
     offset |-> ((seed + 2 * j + k) % 3) - 1,
     weight_mutate_chance |-> 0, weight_mutate_amount |-> 1,
     offset_mutate_chance |-> 0, offset_mutate_amount |-> 1]

PureMap(sets, conns, seed) ==
    [map |-> [j \in 1..sets |->
        [conns |-> [k \in 1..conns |-> PureConn(seed, j, k)],
         activation_thresh |-> ((seed + j) % 4) - 2,
         trait_swap_chance |-> 1]]]

\* the spec's example: ten neurons whose activations are 1,0,1,1,0,1,0,1,1,0
\* on the input 0b10000000 (one connection of weight 1.0 each, the threshold
\* 0.0 where the neuron fires and 1.0 where it does not)
ExampleActivations == <<1, 0, 1, 1, 0, 1, 0, 1, 1, 0>>

ExampleMap ==
    [map |-> [j \in 1..Len(ExampleActivations) |->
        [conns |-> <<[weight |-> 2, offset |-> 0,
                      weight_mutate_chance |-> 0, weight_mutate_amount |-> 1,
                      offset_mutate_chance |-> 0, offset_mutate_amount |-> 1]>>,
         activation_thresh |-> IF ExampleActivations[j] = 1 THEN 0 ELSE 2,
         trait_swap_chance |-> 1]]]

PureFrame == UNCHANGED <<fileVars, newVars, netVars, fwdVars>>

PureInit ==
    /\ FileIdle /\ NewIdle /\ NetIdle /\ FwdIdle
    /\ \/ \E sets \in 0..PMaxSets, conns \in 0..PMaxConns, seed \in 0..PMaxSeed :
            p_map = PureMap(sets, conns, seed)
       \/ p_map = ExampleMap
    /\ p_input \in SeqsUpTo(InputBytes, PMaxBytes) \cup {<<128>>}
    /\ p_acts = <<>>
    /\ p_out = PanicOf(<<>>)
    /\ p_pc = "ready"

\* set.activated(&input_bits) for every set of the map, each call on its own
CallActivated ==
    /\ p_pc = "ready"
    /\ p_acts' = [j \in 1..Len(p_map.map) |-> Activated(p_map.map[j], p_input)]
    /\ p_pc' = "activated"
    /\ UNCHANGED <<p_map, p_input, p_out>>
    /\ PureFrame

\* map.layer_activations(&input_bits)
CallLayerActivations ==
    /\ p_pc = "activated"
    /\ p_out' = LayerActivations(p_map, p_input)
    /\ p_pc' = "layered"
    /\ UNCHANGED <<p_map, p_input, p_acts>>
    /\ PureFrame

PureNext == CallActivated \/ CallLayerActivations

SpecPure == PureInit /\ [][PureNext]_vars

\* ceil(n / 8)
BytesFor(n) == (n + 7) \div 8

\* bit position 7 - (i mod 8) of byte floor(i / 8), i 0-based
BitAt(bytes, i) == (bytes[(i \div 8) + 1] \div (2 ^ (7 - (i % 8)))) % 2

\* the sum over i in 0..n-1 of weight_i * bit_i + offset_i
WeightedSum(set, input_bits) ==
    SumTo([i \in 1..Len(set.conns) |->
             set.conns[i].weight * BitAt(input_bits, i - 1) + set.conns[i].offset],
          Len(set.conns))

\* C9: for a set of n connections and an input of at least ceil(n/8) bytes,
\* activated returns true iff the sum of weight_i * bit_i + offset_i over all
\* i is strictly greater than activation_thresh; every offset counts whatever
\* its bit, and a sum equal to the threshold gives false.
C9_ActivationRule ==
    p_pc # "ready" =>
        \A j \in 1..Len(p_map.map) :
            LET set == p_map.map[j]
            IN  Len(p_input) >= BytesFor(Len(set.conns)) =>
                    /\ p_acts[j].ok
                    /\ p_acts[j].val = (WeightedSum(set, p_input) > set.activation_thresh)

\* a set of nine connections, read across the byte boundary, whose sum equals
\* its threshold and which did not fire, beside one that fired with a 0 bit
\* under a connection whose offset is not 0
C9_Witness ==
    /\ p_pc = "activated"
    /\ Len(p_map.map) > 0
    /\ Len(p_map.map[1].conns) = 9
    /\ Len(p_input) = 2
    /\ \E j \in 1..Len(p_map.map) :
          /\ WeightedSum(p_map.map[j], p_input) = p_map.map[j].activation_thresh
          /\ p_acts[j] = Returned(FALSE)
    /\ \E j \in 1..Len(p_map.map) :
          /\ p_acts[j] = Returned(TRUE)
          /\ \E k \in 1..Len(p_map.map[j].conns) :
                BitAt(p_input, k - 1) = 0 /\ p_map.map[j].conns[k].offset # 0

\* C5: for a map of n sets and a valid input, layer_activations returns
\* exactly floor(n/8) bytes; bit 7-j of byte k is 1 iff set 8k+j is activated;
\* the last n mod 8 activations appear nowhere (the ten activations
\* 1,0,1,1,0,1,0,1,1,0 give the single byte 0b10110101 = 181).
C5_BitPacking ==
    (p_pc = "layered" /\ \A j \in 1..Len(p_map.map) : p_acts[j].ok) =>
        /\ p_out.ok
        /\ Len(p_out.val) = Len(p_map.map) \div 8
        /\ \A k \in 0..(Len(p_out.val) - 1) : \A j \in 0..7 :
              ((p_out.val[k + 1] \div (2 ^ (7 - j))) % 2 = 1) <=> p_acts[8 * k + j + 1].val
        /\ (p_map = ExampleMap /\ p_input = <<128>> => p_out.val = <<181>>)

\* the spec's example was run: ten activations 1,0,1,1,0,1,0,1,1,0, one byte
C5_Witness ==
    /\ p_pc = "layered"
    /\ p_map = ExampleMap
    /\ p_acts = [j \in 1..10 |-> Returned(ExampleActivations[j] = 1)]
    /\ p_out = Returned(<<181>>)

\* seventeen or more sets gave two bytes that differ and are not 0 or 255
C5_TwoBytes ==
    /\ p_pc = "layered"
    /\ p_out.ok
    /\ Len(p_out.val) = 2
    /\ p_out.val[1] # p_out.val[2]
    /\ p_out.val[1] \notin {0, 255}
    /\ Len(p_map.map) % 8 # 0
    /\ p_acts[Len(p_acts)].val

-----------------------------------------------------------------------------
(* SpecNet: two Networks of one shape are mutated, crossed and evaluated *)

EMaxOps == 3        \* at most EMaxOps operations in a run
EMaxSeed == 0       \* weights, offsets and thresholds are drawn by seeds 0..EMaxSeed

\* (weight_mutate_chance, weight_mutate_amount, offset_mutate_chance,
\* offset_mutate_amount), in halves, of the connections that may mutate
Profiles ==
    <<(<<0, 1, 2, 1>>),     \* the weight never, the offset always
      (<<2, 1, 0, 0>>),     \* the weight always, within 0.5
      (<<1, 1, 1, 1>>),     \* each with chance 0.5
      (<<2, 0, 0, 1>>),     \* the weight always, within 0.0
      (<<0, 2, 1, 0>>)>>    \* the offset with chance 0.5, within 0.0

\* every other connection: chances 0.0, amounts 0.5
Cold == <<0, 1, 0, 1>>

\* a small shape, and the least shape whose layers fill whole bytes
NetShapes ==
    {[layer_sizes |-> <<1>>, num_inputs |-> 2, num_outputs |-> 1],
     [layer_sizes |-> <<8>>, num_inputs |-> 1, num_outputs |-> 8]}

NetConn(seed, i, j, k, prof) ==
    [weight |-> ((seed + i + 2 * j + 3 * k) % 5) - 2,
     offset |-> ((seed + 2 * i + j + k) % 3) - 1,
     weight_mutate_chance |-> prof[1], weight_mutate_amount |-> prof[2],
     offset_mutate_chance |-> prof[3], offset_mutate_amount |-> prof[4]]

\* a Network as new_random shapes it; the first connection of the first set
\* of map 1 has profile h1 and that of map 2 has profile h2; the first set of
\* map 1 swaps with chance 0.5, the others always or never
MakeEvoNet(shape, seed, h1, h2) ==
    [maps |-> [i \in 1..(Len(shape.layer_sizes) + 1) |->
        [map |-> [j \in 1..OutLayerSize(i - 1, shape.layer_sizes, shape.num_outputs) |->
            [conns |-> [k \in 1..InLayerSize(i - 1, shape.layer_sizes, shape.num_inputs) |->
                NetConn(seed, i, j, k,
                        IF j = 1 /\ k = 1
                        THEN (IF i = 1 THEN Profiles[h1] ELSE Profiles[h2])
                        ELSE Cold)],
             activation_thresh |-> ((seed + i + j) % 3) - 1,
             trait_swap_chance |-> IF i = 1 /\ j = 1 THEN 1
                                   ELSE 2 * ((seed + i + j) % 2)]]]],
     layer_sizes |-> shape.layer_sizes,
     num_inputs |-> shape.num_inputs,
     num_outputs |-> shape.num_outputs]

NetFrame == UNCHANGED <<fileVars, newVars, pureVars, fwdVars>>

NetInit ==
    /\ FileIdle /\ NewIdle /\ PureIdle /\ FwdIdle
    /\ \E shape \in NetShapes, seed \in 0..EMaxSeed, h \in 1..Len(Profiles) :
        /\ e_a = MakeEvoNet(shape, seed, h, (h % Len(Profiles)) + 1)
        /\ e_b = MakeEvoNet(shape, seed + 1, (h % Len(Profiles)) + 1, h)
    /\ e_op = "none"
    /\ e_pre = <<e_a, e_b>>
    /\ e_base = <<e_a, e_b>>
    /\ e_calls = <<>>
    /\ e_at = <<>>
    /\ e_ops = 0

\* no operation has panicked and the run may go on
NetLive == e_at = <<>> /\ e_ops < EMaxOps

\* e_a.mutate()
Mutate ==
    /\ NetLive
    /\ \E r \in NetMutate(e_a) :
        /\ e_a' = r.net
        /\ e_at' = r.at
    /\ e_op' = "mutate"
    /\ e_pre' = <<e_a, e_b>>
    /\ e_calls' = <<>>
    /\ e_ops' = e_ops + 1
    /\ UNCHANGED <<e_b, e_base>>
    /\ NetFrame

\* e_a.random_trade(&mut e_b)
TradeAB ==
    /\ NetLive
    /\ \E r \in NetRandomTrade(e_a, e_b) :
        /\ e_a' = r[1]
        /\ e_b' = r[2]
        /\ e_base' = r
    /\ e_op' = "trade_ab"
    /\ e_pre' = <<e_a, e_b>>
    /\ e_calls' = <<>>
    /\ e_ops' = e_ops + 1
    /\ UNCHANGED e_at
    /\ NetFrame

\* e_b.random_trade(&mut e_a)
TradeBA ==
    /\ NetLive
    /\ \E r \in NetRandomTrade(e_b, e_a) :
        /\ e_b' = r[1]
        /\ e_a' = r[2]
        /\ e_base' = <<r[2], r[1]>>
    /\ e_op' = "trade_ba"
    /\ e_pre' = <<e_a, e_b>>
    /\ e_calls' = <<>>
    /\ e_ops' = e_ops + 1
    /\ UNCHANGED e_at
    /\ NetFrame

\* the inputs handed to result: one byte, or none at all
ResultInputs == {<<>>, <<0>>, <<128>>}

\* a result that, besides returning, lets the Network's connections mutate
ResultTouching ==
    /\ NetLive
    /\ \E input_bits \in ResultInputs, r \in NetMutate(e_a) :
        /\ e_calls' = Append(e_calls, [input |-> input_bits,
                                      out |-> NetResult(e_a, input_bits)])
        /\ e_a' = r.net
    /\ e_op' = "result"
    /\ e_pre' = <<e_a, e_b>>
    /\ e_ops' = e_ops + 1
    /\ UNCHANGED <<e_b, e_base, e_at>>
    /\ NetFrame

\* e_a.result(&input_bits), which takes &self
Result ==
    /\ NetLive
    /\ \E input_bits \in ResultInputs :
        e_calls' = Append(e_calls, [input |-> input_bits,
                                    out |-> NetResult(e_a, input_bits)])
    /\ e_op' = "result"
    /\ e_pre' = <<e_a, e_b>>
    /\ e_ops' = e_ops + 1
    /\ UNCHANGED <<e_a, e_b, e_base, e_at>>
    /\ NetFrame

NetNext == Mutate \/ TradeAB \/ TradeBA \/ Result

SpecNet == NetInit /\ [][NetNext]_vars

\* the positions <<map, set, connection>> of a Network's connections
Positions(net) ==
    UNION {UNION {{<<i, j, k>> : k \in 1..Len(net.maps[i].map[j].conns)}
                  : j \in 1..Len(net.maps[i].map)}
           : i \in 1..Len(net.maps)}

ConnAt(net, pos) == net.maps[pos[1]].map[pos[2]].conns[pos[3]]

\* the two Networks have the same numbers of maps, sets and connections
SameShape(x, y) ==
    /\ Len(x.maps) = Len(y.maps)
    /\ \A i \in 1..Len(x.maps) :
        /\ Len(x.maps[i].map) = Len(y.maps[i].map)
        /\ \A j \in 1..Len(x.maps[i].map) :
            Len(x.maps[i].map[j].conns) = Len(y.maps[i].map[j].conns)

\* C4: after a.random_trade(b) on two Networks of one shape, at every map,
\* set and connection index the pair (a's connection, b's connection) is the
\* pair from before the call, unchanged or swapped whole; nothing is
\* duplicated, dropped, moved to another index or blended.
C4_TradeConserves ==
    e_op \in {"trade_ab", "trade_ba"} =>
        /\ SameShape(e_a, e_pre[1]) /\ SameShape(e_b, e_pre[2])
        /\ \A pos \in Positions(e_pre[1]) :
            <<ConnAt(e_a, pos), ConnAt(e_b, pos)>> \in
                {<<ConnAt(e_pre[1], pos), ConnAt(e_pre[2], pos)>>,
                 <<ConnAt(e_pre[2], pos), ConnAt(e_pre[1], pos)>>}

\* a trade swapped one connection of a set and kept its neighbour, the two
\* Networks differing at both
C4_Witness ==
    /\ e_op = "trade_ab"
    /\ Len(e_a.maps[1].map[1].conns) >= 2
    /\ ConnAt(e_pre[1], <<1, 1, 1>>) # ConnAt(e_pre[2], <<1, 1, 1>>)
    /\ ConnAt(e_pre[1], <<1, 1, 2>>) # ConnAt(e_pre[2], <<1, 1, 2>>)
    /\ ConnAt(e_a, <<1, 1, 1>>) = ConnAt(e_pre[2], <<1, 1, 1>>)
    /\ ConnAt(e_b, <<1, 1, 1>>) = ConnAt(e_pre[1], <<1, 1, 1>>)
    /\ ConnAt(e_a, <<1, 1, 2>>) = ConnAt(e_pre[1], <<1, 1, 2>>)

C6_OutputsVary ==
    /\ Len(e_calls) = 2
    /\ e_calls[1].out.ok /\ e_calls[2].out.ok
    /\ e_calls[1].out # e_calls[2].out

\* C7: a connection whose weight_mutate_chance is 0 keeps its weight over any
\* number of mutate calls, whatever its weight_mutate_amount and its offset
\* parameters.
C7_ZeroChanceKeepsWeight ==
    e_op # "idle" =>
        \A pos \in Positions(e_base[1]) :
            ConnAt(e_base[1], pos).weight_mutate_chance = 0 =>
                ConnAt(e_a, pos).weight = ConnAt(e_base[1], pos).weight

\* a second mutate in a row changed the Network again; a connection of
\* weight_mutate_chance 0 has a new offset and its old weight, while another
\* connection's weight did change
C7_Witness ==
    /\ e_op = "mutate"
    /\ e_pre[1] # e_base[1]
    /\ e_a # e_pre[1]
    /\ \E pos \in Positions(e_a) :
          /\ ConnAt(e_base[1], pos).weight_mutate_chance = 0
          /\ ConnAt(e_a, pos).offset # ConnAt(e_base[1], pos).offset
    /\ \E pos \in Positions(e_a) :
          ConnAt(e_a, pos).weight # ConnAt(e_base[1], pos).weight

\* C8: for a connection with weight_mutate_amount = 0 and weight_mutate_chance
\* = 1 (whose offset never mutates), mutate completes normally and the weight
\* after the call equals the weight before it.
C8_ZeroAmountNoOp ==
    e_op = "mutate" =>
        \A pos \in Positions(e_pre[1]) :
            LET c == ConnAt(e_pre[1], pos)
            IN  (/\ c.weight_mutate_chance = 2
                 /\ c.weight_mutate_amount = 0
                 /\ c.offset_mutate_chance = 0) =>
                    /\ e_at # pos
                    /\ (e_at = <<>> => ConnAt(e_a, pos).weight = c.weight)

\* what the code does there: the call panics at that connection, and the
\* weight is as it was
C8_PanicsUnchanged ==
    e_op = "mutate" =>
        \A pos \in Positions(e_pre[1]) :
            LET c == ConnAt(e_pre[1], pos)
            IN  (/\ c.weight_mutate_chance = 2
                 /\ c.weight_mutate_amount = 0
                 /\ e_at # <<>>
                 /\ e_at = pos) => ConnAt(e_a, pos) = c

-----------------------------------------------------------------------------
(* SpecForward: result on a Network that new_random built, with an input of *)
(* exactly ceil(num_inputs / 8) bytes                                       *)

WMaxLayers == 2     \* layer_sizes has 1..WMaxLayers entries
WMaxSeed == 0       \* each map's weights are drawn by a seed in 0..WMaxSeed

\* the widths tried: below a byte, a whole byte, a byte and a bit, two bytes
Widths == {1, 8, 9, 16}

\* the Network new_random returns for a layer_sizes of one entry or more:
\* map i is the output of the task spawned for i
BuiltNet(layer_sizes, num_inputs, num_outputs, seed) ==
    [maps |-> [t \in 1..(Len(layer_sizes) + 1) |->
        LET a == SpawnSizes(t - 1, layer_sizes, num_inputs, num_outputs)
        IN  MapNewRandom(a.size, a.neuron_size, Params, seed + t)],
     layer_sizes |-> layer_sizes,
     num_inputs |-> num_inputs,
     num_outputs |-> num_outputs]

FwdFrame == UNCHANGED <<fileVars, newVars, pureVars, netVars>>

FwdInit ==
    /\ FileIdle /\ NewIdle /\ PureIdle /\ NetIdle
    /\ \E layer_sizes \in SeqsUpTo(Widths, WMaxLayers) \ {<<>>},
          num_inputs \in Widths, num_outputs \in Widths, seed \in 0..WMaxSeed :
        /\ w_net = BuiltNet(layer_sizes, num_inputs, num_outputs, seed)
        /\ w_input \in [1..((num_inputs + 7) \div 8) -> InputBytes]
    /\ w_out = PanicOf(<<>>)
    /\ w_pc = "built"

\* w_net.result(&w_input)
ForwardResult ==
    /\ w_pc = "built"
    /\ w_out' = NetResult(w_net, w_input)
    /\ w_pc' = "done"
    /\ UNCHANGED <<w_net, w_input>>
    /\ FwdFrame

FwdNext == ForwardResult

SpecForward == FwdInit /\ [][FwdNext]_vars

\* the number of bytes handed to map i (1-based) when no earlier map
\* panicked: the input's for map 1, floor(width / 8) of the layer before after it
HandedBytes(net, input_bits, i) ==
    IF i = 1 THEN Len(input_bits) ELSE net.layer_sizes[i - 1] \div 8

\* C11: for every Network built by new_random and every input of exactly
\* ceil(num_inputs/8) bytes, result completes without an index out of range:
\* every map i is handed at least ceil(in_width(i)/8) bytes, and the output
\* has floor(num_outputs/8) bytes.
C11_ForwardInRange ==
    w_pc = "done" =>
        /\ \A i \in 1..Len(w_net.maps) :
              HandedBytes(w_net, w_input, i)
                  >= BytesFor(InLayerSize(i - 1, w_net.layer_sizes, w_net.num_inputs))
        /\ w_out.ok
        /\ Len(w_out.val) = w_net.num_outputs \div 8

\* every layer size is a whole number of bytes
WholeByteLayers(net) == \A i \in 1..Len(net.layer_sizes) : net.layer_sizes[i] % 8 = 0

\* what the code keeps of C11: result returns floor(num_outputs/8) bytes
\* exactly when every layer size is a multiple of 8, and panics otherwise
ForwardInRangeIffWholeBytes ==
    w_pc = "done" =>
        /\ w_out.ok <=> WholeByteLayers(w_net)
        /\ (w_out.ok => Len(w_out.val) = w_net.num_outputs \div 8)

\* a forward pass through two layers of 8 and 16 neurons returned two bytes
ForwardReturned ==
    /\ w_pc = "done"
    /\ w_net.layer_sizes = <<8, 16>>
    /\ w_out.ok
    /\ Len(w_out.val) = 2
    /\ w_out.val[1] # w_out.val[2]

=============================================================================
